---- MODULE Spec2Model ----
(***************************************************************************)
(* Completion callbacks of the storage API (openraft/src/storage/          *)
(* callback.rs): LogFlushed and LogApplied, each a one-shot handle bound   *)
(* to an identity and to the sending half of a oneshot channel.            *)
(*                                                                         *)
(* The handles and what they send are translated from callback.rs.  The    *)
(* consensus core (the caller that creates the channels, awaits them and   *)
(* merges flush completions into its per-epoch frontier) is not part of    *)
(* the given sources and is modelled from the specification.               *)
(***************************************************************************)
EXTENDS Naturals, Sequences, FiniteSets

\* ---------------------------------------------------------------- bounds
\* Requests submitted in one behaviour; request s owns channel s.
MaxReq == 2
\* Leadership epochs the core moves through.
MaxEpoch == 2

Slots == 1..MaxReq
Epochs == 1..MaxEpoch
\* io::Error / StorageIOError values an engine may report.
Errors == {"e1", "e2"}
\* Response lists (Vec<C::R>) an apply batch may report: empty, one entry,
\* two orders of the same two entries, and three entries with a repeat.
RespLists == {<<>>, <<"r1">>, <<"r1", "r2">>, <<"r2", "r1">>,
              <<"r2", "r1", "r1">>}

VARIABLES
    nreq,       \* number of requests submitted so far
    kind,       \* kind[s]: "none" | "flush" | "apply"
    handle,     \* handle[s]: the LogFlushed / LogApplied value {id, tx}
    hstate,     \* hstate[s]: "none" | "live" | "consumed" | "dropped"
    call,       \* call[s]: the results the handle of s was invoked with
    outcome,    \* outcome[s]: how each invocation ended for its caller
    trace,      \* trace[s]: log entries and send attempts, in program order
    chan,       \* chan[c]: the values channel c accepted
    rx,         \* rx[c]: "none" | "alive" | "dropped" | "closed"
    got,        \* got[c]: what the core read from channel c
    submitted,  \* submitted[s]: the identity the core created for request s
    cur_epoch,  \* the core's current epoch
    flushed,    \* flushed[e]: the core's flushed frontier of epoch e
    verdict,    \* verdict[c]: what the core did with the flush completion of c
    cmp,        \* the LogIOIds under comparison and the comparisons' results
    at_epoch    \* at_epoch[s]: the core's epoch when it saw s invoked, if watched

vars == <<nreq, kind, handle, hstate, call, outcome, trace, chan, rx, got,
          submitted, cur_epoch, flushed, verdict, cmp, at_epoch>>

\* ------------------------------------------------------------ value types
NoId == [epoch |-> 0, index |-> 0]
NoHandle == [id |-> NoId, tx |-> 0]

\* Result<(), io::Error> and Result<Vec<C::R>, StorageIOError>.
ResOk(resps) == [tag |-> "Ok", resps |-> resps, err |-> "none"]
ResErr(e) == [tag |-> "Err", resps |-> <<>>, err |-> e]

\* What travels on a channel: Ok(log_io_id), Ok((last_log_id, responses)),
\* Err(error); RecvError is what the receiver gets from a closed channel.
MsgOk(id, resps) == [tag |-> "Ok", id |-> id, resps |-> resps, err |-> "none"]
MsgErr(e) == [tag |-> "Err", id |-> NoId, resps |-> <<>>, err |-> e]
RecvError == [tag |-> "RecvError", id |-> NoId, resps |-> <<>>, err |-> "none"]

FlushResults == {ResOk(<<>>)} \cup {ResErr(e) : e \in Errors}
ApplyResults == {ResOk(r) : r \in RespLists}
                    \cup {ResErr(e) : e \in Errors}

\* trace entries
LogEntry(level, text, id, e) ==
    [ev |-> "log", level |-> level, text |-> text, id |-> id, err |-> e]
SendEntry(msg, ok) ==
    [ev |-> IF ok THEN "send_ok" ELSE "send_failed", level |-> "none",
     text |-> msg.tag, id |-> msg.id, err |-> msg.err]

\* ------------------------------------------------- the oneshot channel
\* Mutant: send reports success but the value never reaches the channel.
OneshotSendLoses(rx_state, t) ==
    IF rx_state = "alive" THEN [ok |-> TRUE, sent |-> <<>>]
                          ELSE [ok |-> FALSE, sent |-> <<>>]

\* oneshot::Sender::send(self, t): the value is accepted while the receiver
\* has not been dropped or closed, and handed back as Err(t) otherwise.  It
\* never waits.
OneshotSend(rx_state, t) ==
    IF rx_state = "alive" THEN [ok |-> TRUE, sent |-> <<t>>]
                          ELSE [ok |-> FALSE, sent |-> <<>>]

\* Mutant: send waits for a receiver, so it never returns once the receiver
\* is gone.
SendReadyNeedsReceiver(rx_state) == rx_state = "alive"

\* When a call of send can go ahead: always.  send is a plain function, not
\* an async one, and both handlers call it without awaiting anything.
SendReady(rx_state) == TRUE

\* ------------------------------------------------------------- LogFlushed
\* Mutant: every handle is bound to the first channel.
LogFlushedNewSharedTx(log_io_id, tx) == [id |-> log_io_id, tx |-> 1]

LogFlushedNew(log_io_id, tx) == [id |-> log_io_id, tx |-> tx]

\* Mutant: success reports a default identity instead of the bound one.
FlushMessageDefaultId(self, result) ==
    IF result.tag = "Err" THEN MsgErr(result.err)
                          ELSE MsgOk(NoId, <<>>)

\* Mutant: success reports the bound index under the core's current epoch.
FlushMessageStampCurrent(self, result) ==
    IF result.tag = "Err"
        THEN MsgErr(result.err)
        ELSE MsgOk([epoch |-> cur_epoch, index |-> self.id.index], <<>>)

\* Mutant: a flush failure is reported as a success.
FlushMessageSwallowErr(self, result) == MsgOk(self.id, <<>>)

\* The value log_io_completed passes to tx.send.
FlushMessage(self, result) ==
    IF result.tag = "Err" THEN MsgErr(result.err)
                          ELSE MsgOk(self.id, <<>>)

\* What log_io_completed logs before it sends.
FlushPreLog(self, result) ==
    IF result.tag = "Err"
        THEN <<LogEntry("error", "LogFlush error", self.id, result.err)>>
        ELSE <<>>

\* Mutant: the send result is unwrapped, so a failed send panics.
FlushSendResultUnwrap(self, ok, msg) ==
    IF ~ok THEN [log |-> <<>>, outcome |-> "panicked"]
           ELSE [log |-> <<>>, outcome |-> "returned"]

\* `if let Err(e) = res { tracing::error!(...) }`: a failed send is logged
\* with the value that came back, and the call returns normally.
FlushSendResult(self, ok, msg) ==
    IF ~ok
        THEN [log |-> <<LogEntry("error", "failed to send log io completion event",
                                 msg.id, msg.err)>>,
              outcome |-> "returned"]
        ELSE [log |-> <<>>, outcome |-> "returned"]

\* Mutant: the handle is borrowed, not moved, and stays usable.
ConsumeHandleBorrowed(send_ok) == "live"

\* Mutant: the handle is given back when the send failed.
ConsumeHandleOnDelivery(send_ok) == IF send_ok THEN "consumed" ELSE "live"

\* `self` is taken by value and tx.send consumes the sender: after the call
\* the handle is gone, whatever the send returned.
ConsumeHandle(send_ok) == "consumed"

\* Mutant: the flush error is logged after the send instead of before it.
log_io_completed_late_log(self, result, rx_state) ==
    LET msg == FlushMessage(self, result)
        res == OneshotSend(rx_state, msg)
        fin == FlushSendResult(self, res.ok, msg)
    IN  [sent    |-> res.sent,
         events  |-> <<SendEntry(msg, res.ok)>> \o FlushPreLog(self, result) \o fin.log,
         outcome |-> fin.outcome,
         self    |-> ConsumeHandle(res.ok)]

log_io_completed(self, result, rx_state) ==
    LET msg == FlushMessage(self, result)
        res == OneshotSend(rx_state, msg)
        fin == FlushSendResult(self, res.ok, msg)
    IN  [sent    |-> res.sent,
         events  |-> FlushPreLog(self, result) \o <<SendEntry(msg, res.ok)>> \o fin.log,
         outcome |-> fin.outcome,
         self    |-> ConsumeHandle(res.ok)]

\* ------------------------------------------------------------- LogApplied
LogAppliedNew(last_log_id, tx) == [id |-> last_log_id, tx |-> tx]

Reverse(q) == [i \in 1..Len(q) |-> q[Len(q) + 1 - i]]

\* Mutant: the responses are reported in reverse order.
ApplyMessageReversed(self, result) ==
    IF result.tag = "Ok" THEN MsgOk(self.id, Reverse(result.resps))
                         ELSE MsgErr(result.err)

\* Mutant: an apply failure is reported as an empty success.
ApplyMessageSwallowErr(self, result) ==
    IF result.tag = "Ok" THEN MsgOk(self.id, result.resps)
                         ELSE MsgOk(self.id, <<>>)

\* Mutant: the two arms are crossed, success is sent as Err and failure as Ok.
ApplyMessageCrossed(self, result) ==
    IF result.tag = "Ok" THEN MsgErr("e1")
                         ELSE MsgOk(self.id, <<>>)

\* The value completed passes to tx.send.
ApplyMessage(self, result) ==
    IF result.tag = "Ok" THEN MsgOk(self.id, result.resps)
                         ELSE MsgErr(result.err)

\* What completed logs before it sends.
ApplyPreLog(self, result) ==
    IF result.tag = "Ok"
        THEN <<LogEntry("debug", "LogApplied upto", self.id, "none")>>
        ELSE <<LogEntry("error", "LogApplied error", self.id, result.err)>>

ApplySendResult(self, ok, msg) ==
    IF ~ok
        THEN [log |-> <<LogEntry("error", "failed to send apply complete event",
                                 self.id, "none")>>,
              outcome |-> "returned"]
        ELSE [log |-> <<>>, outcome |-> "returned"]

completed(self, result, rx_state) ==
    LET msg == ApplyMessage(self, result)
        res == OneshotSend(rx_state, msg)
        fin == ApplySendResult(self, res.ok, msg)
    IN  [sent    |-> res.sent,
         events  |-> ApplyPreLog(self, result) \o <<SendEntry(msg, res.ok)>> \o fin.log,
         outcome |-> fin.outcome,
         self    |-> ConsumeHandle(res.ok)]

\* ------------------------------------------------------ the consensus core
\* Mutant: the completion's epoch is not compared with the current one.
MergeNoEpochCheck(f, cur, L) ==
    IF L.index > f[cur] THEN [f EXCEPT ![cur] = L.index] ELSE f

\* Mutant: the last completion of the current epoch wins.
MergeLastWins(f, cur, L) ==
    IF L.epoch < cur THEN f
    ELSE IF L.epoch = cur THEN [f EXCEPT ![cur] = L.index]
    ELSE f

\* Monotonic merge of a flush completion into the per-epoch frontier: a
\* completion of an older epoch changes nothing; one of the current epoch
\* advances that epoch's frontier only if its index is higher.
Merge(f, cur, L) ==
    IF L.epoch < cur THEN f
    ELSE IF L.epoch = cur /\ L.index > f[cur] THEN [f EXCEPT ![cur] = L.index]
    ELSE f

\* How the core classifies a flush completion it merges.
MergeVerdict(f, cur, L) ==
    IF L.epoch < cur THEN "stale"
    ELSE IF L.epoch = cur /\ L.index > f[cur] THEN "advanced"
    ELSE "not_higher"

\* ----------------------------------------------------------------- LogIOId
\* The LogIOIds the core can create: an epoch and a log index.
LogIOIds == [epoch : Epochs, index : Slots]

\* Mutant: the index is compared first, the epoch only to break ties.
LogIOIdLessIndexFirst(A, B) ==
    \/ A.index < B.index
    \/ A.index = B.index /\ A.epoch < B.epoch

\* A < B: primarily by epoch, then by index.
LogIOIdLess(A, B) ==
    \/ A.epoch < B.epoch
    \/ A.epoch = B.epoch /\ A.index < B.index

\* Before a comparison, and in behaviours that compare nothing.
CmpIdle == [pc |-> "idle", a |-> NoId, b |-> NoId, c |-> NoId,
            ab |-> FALSE, ba |-> FALSE, bc |-> FALSE, ac |-> FALSE,
            aa |-> FALSE]

\* ------------------------------------------------------------------ Init
Init ==
    /\ nreq = 0
    /\ kind = [s \in Slots |-> "none"]
    /\ handle = [s \in Slots |-> NoHandle]
    /\ hstate = [s \in Slots |-> "none"]
    /\ call = [s \in Slots |-> <<>>]
    /\ outcome = [s \in Slots |-> <<>>]
    /\ trace = [s \in Slots |-> <<>>]
    /\ chan = [c \in Slots |-> <<>>]
    /\ rx = [c \in Slots |-> "none"]
    /\ got = [c \in Slots |-> <<>>]
    /\ submitted = [s \in Slots |-> NoId]
    /\ cur_epoch = 1
    /\ flushed = [e \in Epochs |-> 0]
    /\ verdict = [c \in Slots |-> "none"]
    /\ cmp = CmpIdle
    /\ at_epoch = [s \in Slots |-> 0]

\* --------------------------------------------------------------- actions
\* The core submits a flush request: a LogIOId of its current epoch and the
\* next log index, a fresh channel, and a LogFlushed handle bound to both.
SubmitFlush ==
    /\ nreq < MaxReq
    /\ LET s == nreq + 1
       IN  /\ nreq' = s
           /\ kind' = [kind EXCEPT ![s] = "flush"]
           /\ submitted' = [submitted EXCEPT
                  ![s] = [epoch |-> cur_epoch, index |-> s]]
           /\ handle' = [handle EXCEPT ![s] = LogFlushedNew(submitted'[s], s)]
           /\ hstate' = [hstate EXCEPT ![s] = "live"]
           /\ rx' = [rx EXCEPT ![s] = "alive"]
    /\ UNCHANGED <<call, outcome, trace, chan, got, cur_epoch, flushed, verdict,
                   cmp, at_epoch>>

\* The core submits an apply batch ending at the next log id.
SubmitApply ==
    /\ nreq < MaxReq
    /\ LET s == nreq + 1
       IN  /\ nreq' = s
           /\ kind' = [kind EXCEPT ![s] = "apply"]
           /\ submitted' = [submitted EXCEPT
                  ![s] = [epoch |-> cur_epoch, index |-> s]]
           /\ handle' = [handle EXCEPT ![s] = LogAppliedNew(submitted'[s], s)]
           /\ hstate' = [hstate EXCEPT ![s] = "live"]
           /\ rx' = [rx EXCEPT ![s] = "alive"]
    /\ UNCHANGED <<call, outcome, trace, chan, got, cur_epoch, flushed, verdict,
                   cmp, at_epoch>>

\* An engine task reports the end of a flush.
FlushInvoke(s, result) ==
    /\ kind[s] = "flush"
    /\ hstate[s] = "live"
    /\ SendReady(rx[handle[s].tx])
    /\ LET self == handle[s]
           r == log_io_completed(self, result, rx[self.tx])
       IN  /\ chan' = [chan EXCEPT ![self.tx] = @ \o r.sent]
           /\ trace' = [trace EXCEPT ![s] = @ \o r.events]
           /\ call' = [call EXCEPT ![s] = Append(@, result)]
           /\ outcome' = [outcome EXCEPT ![s] = Append(@, r.outcome)]
           /\ hstate' = [hstate EXCEPT ![s] = r.self]
    /\ UNCHANGED <<nreq, kind, handle, rx, got, submitted, cur_epoch, flushed,
                   verdict, cmp>>

FlushCompleted(s, result) ==
    /\ FlushInvoke(s, result)
    /\ UNCHANGED at_epoch

\* The same invocation, with the core's epoch at that moment noted.
FlushCompletedWatched(s, result) ==
    /\ FlushInvoke(s, result)
    /\ at_epoch' = [at_epoch EXCEPT ![s] = cur_epoch]

\* An engine task reports the end of an apply batch.
ApplyCompleted(s, result) ==
    /\ kind[s] = "apply"
    /\ hstate[s] = "live"
    /\ SendReady(rx[handle[s].tx])
    /\ LET self == handle[s]
           r == completed(self, result, rx[self.tx])
       IN  /\ chan' = [chan EXCEPT ![self.tx] = @ \o r.sent]
           /\ trace' = [trace EXCEPT ![s] = @ \o r.events]
           /\ call' = [call EXCEPT ![s] = Append(@, result)]
           /\ outcome' = [outcome EXCEPT ![s] = Append(@, r.outcome)]
           /\ hstate' = [hstate EXCEPT ![s] = r.self]
    /\ UNCHANGED <<nreq, kind, handle, rx, got, submitted, cur_epoch, flushed,
                   verdict, cmp, at_epoch>>

\* Mutant: a Drop implementation reports the dropped handle as a failure.
HandleDropNotifies(s) ==
    /\ hstate[s] = "live"
    /\ hstate' = [hstate EXCEPT ![s] = "dropped"]
    /\ chan' = [chan EXCEPT ![handle[s].tx] =
                   @ \o OneshotSend(rx[handle[s].tx], MsgErr("e1")).sent]
    /\ UNCHANGED <<nreq, kind, handle, call, outcome, trace, rx, got,
                   submitted, cur_epoch, flushed, verdict, cmp, at_epoch>>

\* An engine drops a handle without invoking it; its sender closes unsent.
HandleDrop(s) ==
    /\ hstate[s] = "live"
    /\ hstate' = [hstate EXCEPT ![s] = "dropped"]
    /\ UNCHANGED <<nreq, kind, handle, call, outcome, trace, chan, rx, got,
                   submitted, cur_epoch, flushed, verdict,
                   cmp, at_epoch>>

\* The core gives up on a request and drops its receiver.
RxDrop(c) ==
    /\ rx[c] = "alive"
    /\ rx' = [rx EXCEPT ![c] = "dropped"]
    /\ UNCHANGED <<nreq, kind, handle, hstate, call, outcome, trace, chan, got,
                   submitted, cur_epoch, flushed, verdict,
                   cmp, at_epoch>>

\* The core's await on channel c resolves with the value sent, and a flush
\* completion Ok(L) is merged into the frontier.
CoreRecv(c) ==
    /\ rx[c] = "alive"
    /\ chan[c] # <<>>
    /\ LET msg == chan[c][1]
       IN  /\ got' = [got EXCEPT ![c] = Append(@, msg)]
           /\ IF kind[c] = "flush" /\ msg.tag = "Ok"
                  THEN /\ flushed' = Merge(flushed, cur_epoch, msg.id)
                       /\ verdict' = [verdict EXCEPT
                              ![c] = MergeVerdict(flushed, cur_epoch, msg.id)]
                  ELSE UNCHANGED <<flushed, verdict>>
    /\ rx' = [rx EXCEPT ![c] = "closed"]
    /\ UNCHANGED <<nreq, kind, handle, hstate, call, outcome, trace, chan,
                   submitted, cur_epoch, cmp, at_epoch>>

\* The core's await on channel c resolves with RecvError: the sender was
\* dropped without sending.
CoreRecvClosed(c) ==
    /\ rx[c] = "alive"
    /\ chan[c] = <<>>
    /\ hstate[c] = "dropped"
    /\ got' = [got EXCEPT ![c] = Append(@, RecvError)]
    /\ rx' = [rx EXCEPT ![c] = "closed"]
    /\ UNCHANGED <<nreq, kind, handle, hstate, call, outcome, trace, chan,
                   submitted, cur_epoch, flushed, verdict,
                   cmp, at_epoch>>

\* Leadership changes: the core enters a newer epoch.
EpochAdvance ==
    /\ cur_epoch < MaxEpoch
    /\ cur_epoch' = cur_epoch + 1
    /\ UNCHANGED <<nreq, kind, handle, hstate, call, outcome, trace, chan, rx,
                   got, submitted, flushed, verdict, cmp, at_epoch>>

Next ==
    \/ SubmitFlush
    \/ SubmitApply
    \/ \E s \in Slots : \E result \in FlushResults : FlushCompleted(s, result)
    \/ \E s \in Slots : \E result \in ApplyResults : ApplyCompleted(s, result)
    \/ \E s \in Slots : HandleDrop(s)
    \/ \E c \in Slots : RxDrop(c)
    \/ \E c \in Slots : CoreRecv(c)
    \/ \E c \in Slots : CoreRecvClosed(c)
    \/ EpochAdvance

Spec == Init /\ [][Next]_vars

\* Delivery within one epoch: no handler and no channel reads the epoch, so
\* the behaviours checked for eventual delivery hold it fixed.  A core that
\* keeps a receiver keeps awaiting it: a value waiting on a channel whose
\* receiver is alive is eventually received.
NextLive ==
    \/ SubmitFlush
    \/ SubmitApply
    \/ \E s \in Slots : \E result \in FlushResults : FlushCompleted(s, result)
    \/ \E s \in Slots : \E result \in ApplyResults : ApplyCompleted(s, result)
    \/ \E s \in Slots : HandleDrop(s)
    \/ \E c \in Slots : RxDrop(c)
    \/ \E c \in Slots : CoreRecv(c)
    \/ \E c \in Slots : CoreRecvClosed(c)

SpecLive == Init /\ [][NextLive]_vars /\ \A c \in Slots : WF_vars(CoreRecv(c))

\* Flush requests across epoch changes, each invocation noted with the
\* epoch the core was in.
NextEpochs ==
    \/ SubmitFlush
    \/ \E s \in Slots : \E result \in FlushResults :
          FlushCompletedWatched(s, result)
    \/ \E s \in Slots : HandleDrop(s)
    \/ \E c \in Slots : RxDrop(c)
    \/ \E c \in Slots : CoreRecv(c)
    \/ \E c \in Slots : CoreRecvClosed(c)
    \/ EpochAdvance

SpecEpochs == Init /\ [][NextEpochs]_vars

\* --------------------------------------------- comparing LogIOIds on their own
\* Three LogIOIds are drawn; nothing else exists yet.
InitOrder ==
    /\ nreq = 0
    /\ kind = [s \in Slots |-> "none"]
    /\ handle = [s \in Slots |-> NoHandle]
    /\ hstate = [s \in Slots |-> "none"]
    /\ call = [s \in Slots |-> <<>>]
    /\ outcome = [s \in Slots |-> <<>>]
    /\ trace = [s \in Slots |-> <<>>]
    /\ chan = [c \in Slots |-> <<>>]
    /\ rx = [c \in Slots |-> "none"]
    /\ got = [c \in Slots |-> <<>>]
    /\ submitted = [s \in Slots |-> NoId]
    /\ cur_epoch = 1
    /\ flushed = [e \in Epochs |-> 0]
    /\ verdict = [c \in Slots |-> "none"]
    /\ \E A, B, C \in LogIOIds :
           cmp = [CmpIdle EXCEPT !.pc = "drawn", !.a = A, !.b = B, !.c = C]
    /\ at_epoch = [s \in Slots |-> 0]

\* The drawn LogIOIds are compared pairwise.
Compare ==
    /\ cmp.pc = "drawn"
    /\ cmp' = [cmp EXCEPT !.pc = "compared",
                          !.ab = LogIOIdLess(cmp.a, cmp.b),
                          !.ba = LogIOIdLess(cmp.b, cmp.a),
                          !.bc = LogIOIdLess(cmp.b, cmp.c),
                          !.ac = LogIOIdLess(cmp.a, cmp.c),
                          !.aa = LogIOIdLess(cmp.a, cmp.a)]
    /\ UNCHANGED <<nreq, kind, handle, hstate, call, outcome, trace, chan, rx,
                   got, submitted, cur_epoch, flushed, verdict, at_epoch>>

NextOrder == Compare

SpecOrder == InitOrder /\ [][NextOrder]_vars

\* ---------------------------------------------------------------- claims
Last(q) == q[Len(q)]
\* In this step the handle of request s is invoked; Arg(s) is what with.
InvokedNow(s) == Len(call'[s]) = Len(call[s]) + 1
Arg(s) == Last(call'[s])
SendAttempts(tr) ==
    Cardinality({i \in DOMAIN tr : tr[i].ev \in {"send_ok", "send_failed"}})
OtherRequests(s) == (1..nreq) \ {s}

\* C1. Identity fidelity: invoking a LogFlushed handle with Ok(()) while its
\* receiver is alive puts exactly Ok(L) on its channel, L being the identity
\* the core gave to new(): not a default, not changed, not another request's.
C1_IdentityFidelity ==
    [][\A s \in Slots :
          (kind[s] = "flush" /\ InvokedNow(s) /\ Arg(s).tag = "Ok"
             /\ rx[s] = "alive")
          => /\ chan[s] = <<>>
             /\ chan'[s] = <<MsgOk(submitted[s], <<>>)>>
             /\ chan'[s][1].id # NoId
             /\ \A t \in OtherRequests(s) :
                   /\ chan'[s][1].id # submitted[t]
                   /\ chan'[t] = chan[t]]_vars

\* Two requests are outstanding and a flush handle invoked with Ok has put
\* the identity of its own request on its channel.
C1_Witness ==
    \E s \in Slots :
        /\ nreq = 2
        /\ kind[s] = "flush"
        /\ call[s] = <<ResOk(<<>>)>>
        /\ chan[s] = <<MsgOk(submitted[s], <<>>)>>
        /\ submitted[s] # NoId

\* C2 as stated: every invoked handle has exactly one message on its
\* channel, and no handle is invoked twice.
C2_AsStated ==
    \A s \in Slots :
        /\ Len(call[s]) <= 1
        /\ call[s] # <<>> => (Len(chan[s]) = 1 /\ hstate[s] = "consumed")

\* C2, amended. Exactly-once delivery: invoking a handle (LogFlushed or
\* LogApplied) puts exactly one message on its channel when the receiver is
\* alive and none when the receiver was dropped, never more than one; the
\* invocation consumes the handle, and a consumed handle is never invoked.
C2_ExactlyOnce ==
    [][\A s \in Slots :
          /\ Len(call[s]) <= 1
          /\ Len(chan'[s]) <= 1
          /\ InvokedNow(s)
               => /\ hstate[s] = "live"
                  /\ hstate'[s] = "consumed"
                  /\ chan[s] = <<>>
                  /\ Len(chan'[s]) = (IF rx[s] = "alive" THEN 1 ELSE 0)
                  /\ SendAttempts(trace'[s]) = 1
          /\ hstate[s] = "consumed"
               => (~InvokedNow(s) /\ hstate'[s] = "consumed"
                     /\ chan'[s] = chan[s])]_vars

\* A flush handle and an apply handle have both been invoked and consumed:
\* one delivered its single message, the other found its receiver dropped.
C2_Witness ==
    \E s, t \in Slots :
        /\ kind[s] # kind[t]
        /\ Len(call[s]) = 1 /\ hstate[s] = "consumed" /\ Len(chan[s]) = 1
        /\ Len(call[t]) = 1 /\ hstate[t] = "consumed" /\ chan[t] = <<>>

\* C3. A flush failure is surfaced: invoking a LogFlushed handle with Err(e)
\* while its receiver is alive puts exactly Err(e) on its channel, the same
\* error and not Ok, and the flush is not retried: one send, the handle
\* gone, no new request.
C3_FlushFailureSurfaced ==
    [][\A s \in Slots :
          (kind[s] = "flush" /\ InvokedNow(s) /\ Arg(s).tag = "Err"
             /\ rx[s] = "alive")
          => /\ chan[s] = <<>>
             /\ chan'[s] = <<MsgErr(Arg(s).err)>>
             /\ chan'[s][1].tag = "Err"
             /\ chan'[s][1].err = Arg(s).err
             /\ SendAttempts(trace'[s]) = 1
             /\ hstate'[s] = "consumed"
             /\ nreq' = nreq]_vars

\* A flush handle invoked with Err(e2) has put Err(e2) on its channel.
C3_Witness ==
    \E s \in Slots :
        /\ kind[s] = "flush"
        /\ call[s] = <<ResErr("e2")>>
        /\ chan[s] = <<MsgErr("e2")>>

\* C4. Response-order fidelity: invoking a LogApplied handle bound to G with
\* Ok([r0..r(n-1)]) while its receiver is alive puts Ok((G, [r0..r(n-1)]))
\* on its channel: the bound log id, the same length, the same order.
C4_ResponseOrderFidelity ==
    [][\A s \in Slots :
          (kind[s] = "apply" /\ InvokedNow(s) /\ Arg(s).tag = "Ok"
             /\ rx[s] = "alive")
          => /\ chan[s] = <<>>
             /\ Len(chan'[s]) = 1
             /\ chan'[s][1].tag = "Ok"
             /\ chan'[s][1].id = submitted[s]
             /\ Len(chan'[s][1].resps) = Len(Arg(s).resps)
             /\ \A i \in 1..Len(Arg(s).resps) :
                   chan'[s][1].resps[i] = Arg(s).resps[i]]_vars

\* An apply handle invoked with Ok([r2, r1, r1]) has put the three responses
\* on its channel in that order, with its own log id.
C4_Witness ==
    \E s \in Slots :
        /\ kind[s] = "apply"
        /\ call[s] = <<ResOk(<<"r2", "r1", "r1">>)>>
        /\ chan[s] = <<MsgOk(submitted[s], <<"r2", "r1", "r1">>)>>

\* C5. An apply failure is surfaced: invoking a LogApplied handle with
\* Err(e) while its receiver is alive puts exactly Err(e) on its channel,
\* with no log id and no response list, and the apply is not retried.
C5_ApplyFailureSurfaced ==
    [][\A s \in Slots :
          (kind[s] = "apply" /\ InvokedNow(s) /\ Arg(s).tag = "Err"
             /\ rx[s] = "alive")
          => /\ chan[s] = <<>>
             /\ Len(chan'[s]) = 1
             /\ chan'[s][1].tag = "Err"
             /\ chan'[s][1].err = Arg(s).err
             /\ chan'[s][1].id = NoId
             /\ chan'[s][1].resps = <<>>
             /\ SendAttempts(trace'[s]) = 1
             /\ hstate'[s] = "consumed"
             /\ nreq' = nreq]_vars

\* An apply handle invoked with Err(e1) has put Err(e1) on its channel.
C5_Witness ==
    \E s \in Slots :
        /\ kind[s] = "apply"
        /\ call[s] = <<ResErr("e1")>>
        /\ chan[s] = <<MsgErr("e1")>>

\* The log entries that report a failed send.
IsDeliveryFailure(e) ==
    /\ e.ev = "log"
    /\ e.text \in {"failed to send log io completion event",
                   "failed to send apply complete event"}
DeliveryFailures(tr) ==
    Cardinality({i \in DOMAIN tr : IsDeliveryFailure(tr[i])})

\* C6. An abandoned receiver is harmless: when the receiver of a handle's
\* channel was dropped before the handle is invoked, the invocation (with Ok
\* or Err, flush or apply) returns normally, delivers no message, sends once
\* and does not retry, and the failed delivery shows only as one error-level
\* log entry, the last of the invocation; nothing the core holds changes.
C6_AbandonedReceiverHarmless ==
    [][\A s \in Slots :
          (InvokedNow(s) /\ rx[s] = "dropped")
          => /\ Last(outcome'[s]) = "returned"
             /\ chan[s] = <<>>
             /\ chan' = chan
             /\ SendAttempts(trace'[s]) = 1
             /\ hstate'[s] = "consumed"
             /\ DeliveryFailures(trace'[s]) = 1
             /\ IsDeliveryFailure(Last(trace'[s]))
             /\ Last(trace'[s]).level = "error"
             /\ \A t \in Slots \ {s} :
                   trace'[t] = trace[t] /\ outcome'[t] = outcome[t]
             /\ UNCHANGED <<nreq, rx, got, submitted, cur_epoch, flushed,
                            verdict>>]_vars

\* A flush handle invoked with Ok and an apply handle invoked with Err, each
\* after its receiver was dropped: both returned, neither delivered.
C6_Witness ==
    \E s, t \in Slots :
        /\ kind[s] = "flush" /\ rx[s] = "dropped"
        /\ call[s] = <<ResOk(<<>>)>>
        /\ outcome[s] = <<"returned">> /\ chan[s] = <<>>
        /\ kind[t] = "apply" /\ rx[t] = "dropped"
        /\ Len(call[t]) = 1 /\ call[t][1].tag = "Err"
        /\ outcome[t] = <<"returned">> /\ chan[t] = <<>>

\* The message request c's own invocation stands for: its own identity and
\* the result its own handle was invoked with.
OwnMessage(c) ==
    IF call[c][1].tag = "Err" THEN MsgErr(call[c][1].err)
    ELSE IF kind[c] = "flush" THEN MsgOk(submitted[c], <<>>)
    ELSE MsgOk(submitted[c], call[c][1].resps)

\* C7. Per-request isolation under reordering: with several flush and apply
\* requests outstanding and their handles invoked in any order, whatever a
\* channel holds and whatever its receiver obtains is the result of its own
\* request's invocation, never a message of another request's handle.
C7_PerRequestIsolation ==
    \A c \in Slots :
        /\ \A i \in DOMAIN chan[c] :
              /\ call[c] # <<>>
              /\ chan[c][i] = OwnMessage(c)
        /\ \A i \in DOMAIN got[c] :
              got[c][i] # RecvError
              => /\ call[c] # <<>>
                 /\ got[c][i] = OwnMessage(c)
                 /\ got[c][i].tag = "Ok"
                      => \A t \in OtherRequests(c) :
                            got[c][i].id # submitted[t]

\* Two requests were outstanding together and the later one completed first:
\* its receiver holds its own Ok result while the earlier handle is still
\* live.
C7_Witness ==
    \E c, t \in Slots :
        /\ t < c
        /\ hstate[t] = "live" /\ rx[t] = "alive"
        /\ got[c] # <<>>
        /\ got[c][1].tag = "Ok"
        /\ got[c][1] = OwnMessage(c)

\* The lifecycle state of request s.
ReqState(s) ==
    IF kind[s] = "none" THEN "NotSubmitted"
    ELSE IF call[s] = <<>> THEN "Submitted"
    ELSE IF Last(call[s]).tag = "Ok" THEN "CompletedOk"
    ELSE "CompletedErr"

\* C8. Per-request lifecycle: a request moves only from Submitted to
\* Completed(Ok) or Completed(Err); a Completed request never moves again
\* and is never invoked again; the handle of a Completed request is
\* consumed, whether its send succeeded or failed.
C8_Lifecycle ==
    [][\A s \in Slots :
          /\ ReqState(s) # ReqState(s)'
               => \/ ReqState(s) = "NotSubmitted" /\ ReqState(s)' = "Submitted"
                  \/ ReqState(s) = "Submitted"
                       /\ ReqState(s)' \in {"CompletedOk", "CompletedErr"}
          /\ ReqState(s) \in {"CompletedOk", "CompletedErr"}
               => (call'[s] = call[s] /\ hstate[s] = "consumed")
          /\ ReqState(s)' \in {"CompletedOk", "CompletedErr"}
               => hstate'[s] = "consumed"]_vars

\* One request is Completed(Ok) with its message delivered, another is
\* Completed(Err) with its delivery failed; both handles are consumed.
C8_Witness ==
    \E s, t \in Slots :
        /\ ReqState(s) = "CompletedOk" /\ Len(chan[s]) = 1
        /\ hstate[s] = "consumed"
        /\ ReqState(t) = "CompletedErr" /\ chan[t] = <<>>
        /\ hstate[t] = "consumed"

\* In this step the core receives a flush completion Ok(L) on channel c.
RecvFlushOkNow(c) ==
    /\ kind[c] = "flush"
    /\ Len(got'[c]) = Len(got[c]) + 1
    /\ Last(got'[c]).tag = "Ok"

\* C9. Stale-epoch completions never advance the watermark: when the core
\* receives a flush completion Ok(L) whose epoch is older than its current
\* epoch, the frontier of the current epoch, and of every epoch, stays as it
\* was.
C9_StaleNeverAdvances ==
    [][\A c \in Slots :
          (RecvFlushOkNow(c) /\ Last(got'[c]).id.epoch < cur_epoch)
          => /\ flushed'[cur_epoch] = flushed[cur_epoch]
             /\ flushed' = flushed]_vars

\* The core has received, in a later epoch, a flush completion of an older
\* epoch whose index is above the current epoch's frontier.
C9_Witness ==
    \E c \in Slots :
        /\ kind[c] = "flush"
        /\ verdict[c] = "stale"
        /\ got[c] = <<MsgOk(submitted[c], <<>>)>>
        /\ submitted[c].epoch < cur_epoch
        /\ submitted[c].index > flushed[cur_epoch]

\* C10. Monotonic flushed frontier: the flushed index the core holds for an
\* epoch never decreases, also when the flush completions of that epoch
\* arrive out of submission order.
C10_MonotonicFrontier ==
    [][\A e \in Epochs : flushed'[e] >= flushed[e]]_vars

\* Two flush requests of one epoch completed out of order: the completion of
\* the earlier, lower index arrived after the frontier had passed it.
C10_Witness ==
    \E c, d \in Slots :
        /\ c < d
        /\ kind[c] = "flush" /\ kind[d] = "flush"
        /\ submitted[c].epoch = submitted[d].epoch
        /\ verdict[d] = "advanced"
        /\ verdict[c] = "not_higher"
        /\ flushed[submitted[c].epoch] = submitted[d].index
        /\ flushed[submitted[c].epoch] > submitted[c].index

\* C11. LogIOId comparison is a total order, lexicographic on (epoch,
\* index): an older epoch is less whatever the indexes; within one epoch
\* the lower index is less; the relation is irreflexive, antisymmetric,
\* transitive, and any two different LogIOIds are comparable.
C11_LogIOIdTotalOrder ==
    cmp.pc = "compared"
    => /\ cmp.a.epoch < cmp.b.epoch => cmp.ab
       /\ cmp.a.epoch > cmp.b.epoch => ~cmp.ab
       /\ cmp.a.epoch = cmp.b.epoch => (cmp.ab <=> cmp.a.index < cmp.b.index)
       /\ ~cmp.aa
       /\ ~(cmp.ab /\ cmp.ba)
       /\ (cmp.ab /\ cmp.bc) => cmp.ac
       /\ cmp.a # cmp.b => (cmp.ab \/ cmp.ba)

\* Compared: A of an older epoch with the higher index, B of the newer epoch
\* with the lower index, and C above B within B's epoch; A < B < C.
C11_Witness ==
    /\ cmp.pc = "compared"
    /\ cmp.a.epoch < cmp.b.epoch /\ cmp.a.index > cmp.b.index
    /\ cmp.b.epoch = cmp.c.epoch /\ cmp.b.index < cmp.c.index
    /\ cmp.ab /\ cmp.bc /\ cmp.ac /\ ~cmp.ba

\* The core has received the result of request c's own invocation.
ReceivedOwn(c) == call[c] # <<>> /\ got[c] = <<OwnMessage(c)>>

\* C12. Delivery to a listening consumer: once a handle has been invoked,
\* the core eventually receives that handle's own result unless it drops
\* the receiver: the result is lost only to a dropped receiver.
C12_DeliveredIfListening ==
    \A c \in Slots :
        (call[c] # <<>>) ~> (ReceivedOwn(c) \/ rx[c] = "dropped")

\* Both requests were invoked while the core kept their receivers, and the
\* core has received the result of each, an Ok and an Err.
C12_Witness ==
    \E c, d \in Slots :
        /\ call[c] # <<>> /\ call[c][1].tag = "Ok"
        /\ rx[c] = "closed" /\ got[c] = <<OwnMessage(c)>>
        /\ call[d] # <<>> /\ call[d][1].tag = "Err"
        /\ rx[d] = "closed" /\ got[d] = <<OwnMessage(d)>>

\* C13. At most one write per channel: in every reachable state a channel
\* has accepted at most one message, written by one send, and the core has
\* read at most one message from it, which is the one written.
C13_AtMostOneWrite ==
    \A c \in Slots :
        /\ Len(chan[c]) <= 1
        /\ Len(got[c]) <= 1
        /\ Cardinality({s \in Slots : trace[s] # <<>> /\ handle[s].tx = c
                          /\ \E i \in DOMAIN trace[s] :
                                trace[s][i].ev = "send_ok"}) <= 1
        /\ \A i \in DOMAIN got[c] :
              got[c][i] # RecvError => (chan[c] # <<>> /\ got[c][i] = chan[c][1])

\* Each of the two channels was written once and read once.
C13_Witness ==
    /\ nreq = 2
    /\ \A c \in Slots :
          /\ Len(chan[c]) = 1
          /\ got[c] = chan[c]
          /\ rx[c] = "closed"

\* C14. The handles are epoch-agnostic: whatever the core's current epoch
\* is when log_io_completed(Ok(())) is invoked, also one newer than the
\* epoch of the bound L, Ok(L) is sent unchanged, and the invocation
\* touches neither the epoch nor the frontier; a completion of a superseded
\* epoch reaches the core as sent and is classified there.
C14_EpochAgnostic ==
    [][\A s \in Slots :
          /\ (kind[s] = "flush" /\ InvokedNow(s) /\ Arg(s).tag = "Ok"
                /\ rx[s] = "alive")
             => /\ chan'[s] = <<MsgOk(submitted[s], <<>>)>>
                /\ chan'[s][1].id.epoch = submitted[s].epoch
                /\ UNCHANGED <<cur_epoch, flushed, verdict, got>>
          /\ (RecvFlushOkNow(s) /\ submitted[s].epoch < cur_epoch)
             => /\ Last(got'[s]) = MsgOk(submitted[s], <<>>)
                /\ verdict'[s] = "stale"]_vars

\* A flush handle bound to an identity of epoch 1 was invoked with Ok while
\* the core was in a later epoch; Ok of that identity was delivered as is
\* and the core classified it as stale.
C14_Witness ==
    \E s \in Slots :
        /\ kind[s] = "flush"
        /\ call[s] = <<ResOk(<<>>)>>
        /\ at_epoch[s] > submitted[s].epoch
        /\ chan[s] = <<MsgOk(submitted[s], <<>>)>>
        /\ got[s] = chan[s]
        /\ verdict[s] = "stale"

\* C15. The producer never blocks: a live handle can be invoked with any
\* result whatever the state of its receiver (alive and read or unread, or
\* dropped), and an invocation is over in one step of at most three events
\* with one send: it has returned without any step of the consumer.
C15_ProducerNeverBlocks ==
    \A s \in Slots :
        /\ (hstate[s] = "live" /\ kind[s] = "flush")
           => \A result \in FlushResults : ENABLED FlushCompleted(s, result)
        /\ (hstate[s] = "live" /\ kind[s] = "apply")
           => \A result \in ApplyResults : ENABLED ApplyCompleted(s, result)
        /\ call[s] # <<>>
           => /\ Len(outcome[s]) = Len(call[s])
              /\ Last(outcome[s]) = "returned"
              /\ Len(trace[s]) <= 3
              /\ SendAttempts(trace[s]) = 1

\* One invocation has returned with its receiver dropped beforehand, another
\* with its receiver alive and its message still unread.
C15_Witness ==
    \E s, t \in Slots :
        /\ call[s] # <<>> /\ outcome[s] = <<"returned">>
        /\ rx[s] = "dropped" /\ chan[s] = <<>>
        /\ call[t] # <<>> /\ outcome[t] = <<"returned">>
        /\ rx[t] = "alive" /\ Len(chan[t]) = 1 /\ got[t] = <<>>

\* C16. A never-invoked handle is silent: once a handle has been dropped
\* without being invoked it stays dropped; nothing is ever sent on its
\* channel, nothing is logged, its request stays Submitted, and the core
\* gets no Ok and no Err for it, at most the closing of the channel.
C16_DroppedHandleSilent ==
    [][\A s \in Slots :
          hstate[s] = "dropped"
          => /\ hstate'[s] = "dropped"
             /\ call'[s] = <<>>
             /\ chan'[s] = <<>>
             /\ trace'[s] = <<>>
             /\ outcome'[s] = <<>>
             /\ ReqState(s)' = "Submitted"
             /\ \A i \in DOMAIN got'[s] : got'[s][i] = RecvError]_vars

\* A dropped flush handle whose core still waits with nothing to receive,
\* and a dropped apply handle whose core found the channel closed.
C16_Witness ==
    \E s, t \in Slots :
        /\ kind[s] = "flush" /\ hstate[s] = "dropped"
        /\ rx[s] = "alive" /\ chan[s] = <<>> /\ got[s] = <<>>
        /\ kind[t] = "apply" /\ hstate[t] = "dropped"
        /\ rx[t] = "closed" /\ got[t] = <<RecvError>>

\* The log entries that report the flush or apply failure itself.
IsFailureReport(e) ==
    /\ e.ev = "log"
    /\ e.text \in {"LogFlush error", "LogApplied error"}
IsSend(e) == e.ev \in {"send_ok", "send_failed"}
Delivered(tr) == \E i \in DOMAIN tr : tr[i].ev = "send_ok"
ErrorEntries(tr) == {i \in DOMAIN tr : tr[i].ev = "log" /\ tr[i].level = "error"}

\* C17 as stated: an error-level entry naming the bound identity is in the
\* log exactly when the handle was invoked with Err, it precedes the send,
\* and an Ok invocation whose delivery succeeded logged no error.
C17_AsStated ==
    \A s \in Slots :
        call[s] # <<>>
        => /\ (\E i \in ErrorEntries(trace[s]) : trace[s][i].id = submitted[s])
                <=> call[s][1].tag = "Err"
           /\ \A i \in ErrorEntries(trace[s]) :
                 trace[s][i].id = submitted[s]
                 => \E j \in DOMAIN trace[s] : j > i /\ IsSend(trace[s][j])
           /\ (call[s][1].tag = "Ok" /\ Delivered(trace[s]))
                => ErrorEntries(trace[s]) = {}

\* C17, amended. The entry reporting the failure itself ("LogFlush error",
\* "LogApplied error"), at error level and naming the bound identity and the
\* error, is logged exactly when the handle is invoked with Err, first, and
\* the send of Err follows it; the only other error-level entry is the one
\* for a failed send, logged last after a send that failed, with Ok or with
\* Err; an Ok invocation whose delivery succeeds logs no error-level entry.
C17_FailureLogging ==
    \A s \in Slots :
        /\ call[s] = <<>> => trace[s] = <<>>
        /\ call[s] # <<>>
           => LET tr == trace[s]
                  reports == {i \in DOMAIN tr : IsFailureReport(tr[i])}
              IN  /\ call[s][1].tag = "Err"
                       => /\ reports = {1}
                          /\ tr[1].level = "error"
                          /\ tr[1].id = submitted[s]
                          /\ tr[1].err = call[s][1].err
                          /\ IsSend(tr[2])
                          /\ tr[2].text = "Err" /\ tr[2].err = call[s][1].err
                  /\ call[s][1].tag = "Ok" => reports = {}
                  /\ \A i \in ErrorEntries(tr) \ reports :
                        /\ IsDeliveryFailure(tr[i])
                        /\ i = Len(tr)
                        /\ tr[i - 1].ev = "send_failed"
                  /\ (call[s][1].tag = "Ok" /\ Delivered(trace[s]))
                       => ErrorEntries(tr) = {}

\* A flush handle invoked with Err(e1) logged the failure with its identity
\* and then sent Err(e1); an apply handle invoked with Ok to a dropped
\* receiver logged only the failed send, naming its log id.
C17_Witness ==
    \E s, t \in Slots :
        /\ kind[s] = "flush" /\ call[s] = <<ResErr("e1")>>
        /\ chan[s] = <<MsgErr("e1")>>
        /\ Len(trace[s]) = 2
        /\ IsFailureReport(trace[s][1]) /\ trace[s][1].id = submitted[s]
        /\ trace[s][2].ev = "send_ok"
        /\ kind[t] = "apply" /\ call[t] # <<>> /\ call[t][1].tag = "Ok"
        /\ chan[t] = <<>>
        /\ ErrorEntries(trace[t]) = {Len(trace[t])}
        /\ IsDeliveryFailure(Last(trace[t]))
        /\ Last(trace[t]).id = submitted[t]

\* Every message that was placed on channel c: still buffered, or already
\* taken by the receiver (RecvError is the closed channel, not a message).
PlacedMessages(c) ==
    {chan[c][i] : i \in DOMAIN chan[c]}
        \cup {got[c][i] : i \in {j \in DOMAIN got[c] : got[c][j] # RecvError}}

\* C18. Outcome kind is preserved: a message on a flush or apply channel is
\* Ok only if its handle was invoked with Ok and Err only if its handle was
\* invoked with Err; the same holds for what the handle attempted to send.
C18_OutcomeKindPreserved ==
    \A c \in Slots :
        /\ \A m \in PlacedMessages(c) :
              /\ m.tag \in {"Ok", "Err"}
              /\ call[c] # <<>>
              /\ m.tag = call[c][1].tag
        /\ \A i \in DOMAIN trace[c] :
              IsSend(trace[c][i]) => trace[c][i].text = call[c][1].tag

\* One channel carries Ok from a handle invoked with Ok while another
\* carries Err from a handle invoked with Err, over a flush and an apply.
C18_Witness ==
    \E c, d \in Slots :
        /\ kind[c] # kind[d]
        /\ call[c] # <<>> /\ call[c][1].tag = "Ok"
        /\ \E m \in PlacedMessages(c) : m.tag = "Ok"
        /\ call[d] # <<>> /\ call[d][1].tag = "Err"
        /\ \E m \in PlacedMessages(d) : m.tag = "Err"

====
